---- MODULE Spec2Model ----
(***************************************************************************)
(* Verification model of momepy/elements.py: the component-assignment loop *)
(* and the id joins of blocks(), the single snapping pass of               *)
(* snap_street_network_edge(), and the seed generation, dissolve and       *)
(* limit clipping of tessellation().                                       *)
(*                                                                         *)
(* Each routine is a state machine of its own (SpecLoop, SpecJoin, ...)    *)
(* over the variables it owns; the variables of the other routines stay    *)
(* at their idle values.                                                   *)
(***************************************************************************)
EXTENDS Integers, Sequences, FiniteSets, TLC

\* ------------------------------------------------------------------------
\* Bounds of the model
\* ------------------------------------------------------------------------

\* number of rows of the exploded fragment table blocks_gdf
NFrag == 4

\* number of rows of the street network
NEdges == 2

\* number of rows of the exploded footprint table
NObjects == 2

\* number of rows of buildings and of cells handed to blocks()
NBuildings == 2

\* number of blocks the containment scan meets
NBlocks == 3

\* number of cells handed to _queen_corners
NRings == 2

\* number of cells handed to _cut on its own
NCells == 2

\* largest tolerance_street; tolerance_edge is one more
MaxTol == 3

\* ------------------------------------------------------------------------
\* Generic helpers (Python list idioms)
\* ------------------------------------------------------------------------

\* `x in lst`
InList(x, lst) == \E i \in 1..Len(lst) : lst[i] = x

\* set(lst)
Elems(lst) == {lst[i] : i \in 1..Len(lst)}

\* list(reversed(lst)), the effect of lst.reverse()
Reverse(lst) == [i \in 1..Len(lst) |-> lst[Len(lst) + 1 - i]]

\* a set of integers as the ascending list
RECURSIVE SortedSeq(_)
SortedSeq(S) ==
    IF S = {} THEN <<>>
    ELSE LET m == CHOOSE x \in S : \A y \in S : x <= y
         IN <<m>> \o SortedSeq(S \ {m})

\* a set of points as the list ordered by x, then y
RECURSIVE SortedAtoms(_)
SortedAtoms(S) ==
    IF S = {} THEN <<>>
    ELSE LET m == CHOOSE a \in S : \A b \in S : a[1] < b[1] \/ (a[1] = b[1] /\ a[2] <= b[2])
         IN <<m>> \o SortedAtoms(S \ {m})

\* all orderings of a finite set, as sequences
Orderings(S) ==
    {s \in [1..Cardinality(S) -> S] : \A i, j \in 1..Cardinality(S) : i # j => s[i] # s[j]}

VARIABLES
    \* ---- blocks(): component-assignment loop (lines 657-681) ----
    neighbors,     \* spatial_weights.neighbors: fragment index -> list of neighbours
    rowOrder,      \* order in which blocks_gdf.iterrows() yields the fragment indices
    lpc,           \* position of the loop: "outer", "inner", "done"
    pos,           \* position of the outer for in rowOrder
    to_join,       \* list of indices which should be joined together
    neighbours,    \* work list of neighbours, extended while it is iterated
    ni,            \* position of `for n in neighbours`
    patches,       \* dict fragment index -> component id (0: key absent)
    jID,           \* next component id
    writes,        \* per fragment, how often patches[b] = jID was executed
    \* ---- snap_street_network_edge() (lines 380-591) ----
    edges,         \* the input street network: row -> coordinate list
    network,       \* edges.copy(), geometries replaced in place
    sindex,        \* network.sindex, built once before the pass: row -> bounds
    buildings,     \* building footprints (rectangles)
    geometry,      \* tessellation.geometry.unary_union.boundary, as segments
    tolerance_street,
    tolerance_edge,
    spc,           \* position of the pass
    cur,           \* idx of the row being processed
    l_coords,      \* coordinate list shared by the loop body and both helpers
    first,         \* the start of the row is connected
    second,        \* the end of the row is connected
    ends_left,     \* ends of the current row still to extend
    true_int,      \* intersection points collected by the last search
    lastExt,       \* what the last search of an end did
    crossing,      \* candidate extended lines that intersect a footprint
    \* ---- tessellation(), _point_array(), _regions(), _cut() ----
    objects,       \* the exploded footprints: uid, boundary.type, boundary points
    limit,         \* the study area
    queen_corners, \* the flag of tessellation()
    tpc,           \* position of the run
    prow,          \* row of objects.iterrows() in _point_array
    points,        \* list of points
    ids,           \* list of ids, one per point
    seeds,         \* what _point_array returned: <<points, ids>>
    regions_gdf,   \* the rows _regions returns
    tessellation,  \* the table of cells: uid, geometry
    uncut,         \* the table as handed to the first _cut
    subselection,  \* list(to_cut.index)
    cpos,          \* position of the cutting loop in subselection
    cut_calls,     \* calls of _cut that have returned
    first_cut,     \* the table as returned by the first _cut
    \* ---- blocks(), the joins of the block id ----
    bl_buildings,    \* buildings: id, place of the representative point
    bl_tessellation, \* tessellation: id, place of the cell
    blocks_save,     \* the blocks: block id, outline
    bl_ID_to_uID,    \* the table of id and block id
    buildings_out,   \* the returned buildings
    cells,           \* the returned cells
    bpc,             \* position of the run
    \* ---- blocks(), the containment scan ----
    blocks,        \* the table of blocks: polygon per row label
    blocks_in,     \* the table as the scan found it
    delete,        \* the column 'delete'
    bix,           \* row of blocks.iterrows()
    kpc,           \* position of the run
    \* ---- _queen_corners() ----
    rings,         \* list(cell.exterior.coords) of every cell
    junctions,     \* the points that more than two cells intersect
    sensitivity,   \* the parameter
    changes,       \* dict: coordinate -> [new coordinate, tag]
    qid,           \* the counter of changes
    recorded,      \* every pair that was put in change
    rebuilt,       \* per ring rebuilt: coords, keys, delete_points, newcoords
    qix,           \* row of tessellation.iterrows()
    qpc            \* position of the run

loopVars == <<neighbors, rowOrder, lpc, pos, to_join, neighbours, ni, patches, jID, writes>>

snapVars == <<edges, network, sindex, buildings, geometry, tolerance_street, tolerance_edge,
              spc, cur, l_coords, first, second, ends_left, true_int, lastExt, crossing>>

tessVars == <<objects, limit, queen_corners, tpc, prow, points, ids, seeds, regions_gdf,
              tessellation, uncut, subselection, cpos, cut_calls, first_cut>>

joinVars == <<bl_buildings, bl_tessellation, blocks_save, bl_ID_to_uID, buildings_out, cells, bpc>>

scanVars == <<blocks, blocks_in, delete, bix, kpc>>

queenVars == <<rings, junctions, sensitivity, changes, qid, recorded, rebuilt, qix, qpc>>

vars == <<loopVars, snapVars, tessVars, joinVars, scanVars, queenVars>>

\* the variables a routine does not own
notLoopVars == <<snapVars, tessVars, joinVars, scanVars, queenVars>>
notSnapVars == <<loopVars, tessVars, joinVars, scanVars, queenVars>>
notTessVars == <<loopVars, snapVars, joinVars, scanVars, queenVars>>
notJoinVars == <<loopVars, snapVars, tessVars, scanVars, queenVars>>
notScanVars == <<loopVars, snapVars, tessVars, joinVars, queenVars>>
notQueenVars == <<loopVars, snapVars, tessVars, joinVars, scanVars>>

\* ------------------------------------------------------------------------
\* blocks(): the component-assignment loop
\* ------------------------------------------------------------------------

\* index of blocks_gdf (0..n-1 in the code, 1..n here)
Frag == 1..NFrag

\* Queen contiguity: irreflexive and symmetric neighbour sets
QueenGraphs ==
    {g \in [Frag -> SUBSET Frag] :
        \A a, b \in Frag : (a \notin g[a]) /\ (b \in g[a] <=> a \in g[b])}

\* `if idx in patches` (line 662); the mutant never skips a row
AlreadyPatchedNever(p, idx) == FALSE
AlreadyPatched(p, idx) == p[idx] # 0

\* the neighbours pulled in when n is appended to to_join (lines 674-676);
\* the mutant forgets the neighbours of neighbours
WeightsOfNone(w, n) == <<>>
WeightsOf(w, n) == w[n]

\* one pass of `for n in neighbours` (lines 671-676): the while loop runs at
\* most once, since its body puts n in to_join
VisitNeighbourNoExtend(w, tj, nb, n) ==
    IF InList(n, tj) THEN <<tj, nb>> ELSE <<Append(tj, n), nb>>
\* (a second mutant appends n whether or not it is in to_join)
VisitNeighbourAlways(w, tj, nb, n) == <<Append(tj, n), nb \o WeightsOf(w, n)>>
VisitNeighbour(w, tj, nb, n) ==
    IF InList(n, tj) THEN <<tj, nb>>
    ELSE <<Append(tj, n), nb \o WeightsOf(w, n)>>

\* `for b in to_join: patches[b] = jID` (lines 677-678)
FillPatches(p, tj, id) == [f \in Frag |-> IF InList(f, tj) THEN id ELSE p[f]]

LoopIdle ==
    /\ neighbors = [f \in Frag |-> <<>>]
    /\ rowOrder = <<>>
    /\ lpc = "idle"
    /\ pos = 0
    /\ to_join = <<>>
    /\ neighbours = <<>>
    /\ ni = 0
    /\ patches = [f \in Frag |-> 0]
    /\ jID = 0
    /\ writes = [f \in Frag |-> 0]

\* lines 655-658: the weights are built, patches = {}, jID = 1
LoopInit ==
    /\ \E g \in QueenGraphs : neighbors = [f \in Frag |-> SortedSeq(g[f])]
    /\ rowOrder \in Orderings(Frag)
    /\ lpc = "outer"
    /\ pos = 1
    /\ to_join = <<>>
    /\ neighbours = <<>>
    /\ ni = 0
    /\ patches = [f \in Frag |-> 0]
    /\ jID = 1
    /\ writes = [f \in Frag |-> 0]

\* lines 662-663: the row is already in patches, continue
SkipPatched ==
    /\ UNCHANGED notLoopVars
    /\ lpc = "outer"
    /\ pos <= Len(rowOrder)
    /\ AlreadyPatched(patches, rowOrder[pos])
    /\ pos' = pos + 1
    /\ UNCHANGED <<neighbors, rowOrder, lpc, to_join, neighbours, ni, patches, jID, writes>>

\* lines 665-669: a new component is seeded with the row
StartComponent ==
    /\ UNCHANGED notLoopVars
    /\ lpc = "outer"
    /\ pos <= Len(rowOrder)
    /\ ~AlreadyPatched(patches, rowOrder[pos])
    /\ to_join' = <<rowOrder[pos]>>
    /\ neighbours' = neighbors[rowOrder[pos]]
    /\ ni' = 1
    /\ lpc' = "inner"
    /\ UNCHANGED <<neighbors, rowOrder, pos, patches, jID, writes>>

\* lines 671-676: the next element of the work list
ExpandComponent ==
    /\ UNCHANGED notLoopVars
    /\ lpc = "inner"
    /\ ni <= Len(neighbours)
    /\ LET r == VisitNeighbour(neighbors, to_join, neighbours, neighbours[ni])
       IN /\ to_join' = r[1]
          /\ neighbours' = r[2]
    /\ ni' = ni + 1
    /\ UNCHANGED <<neighbors, rowOrder, lpc, pos, patches, jID, writes>>

\* lines 677-679: the work list is exhausted, the component gets its id
AssignComponent ==
    /\ UNCHANGED notLoopVars
    /\ lpc = "inner"
    /\ ni > Len(neighbours)
    /\ patches' = FillPatches(patches, to_join, jID)
    /\ writes' = [f \in Frag |-> IF InList(f, to_join) THEN writes[f] + 1 ELSE writes[f]]
    /\ jID' = jID + 1
    /\ pos' = pos + 1
    /\ lpc' = "outer"
    /\ UNCHANGED <<neighbors, rowOrder, to_join, neighbours, ni>>

\* line 681: the loop is over, patches is mapped on the index
FinishLoop ==
    /\ UNCHANGED notLoopVars
    /\ lpc = "outer"
    /\ pos > Len(rowOrder)
    /\ lpc' = "done"
    /\ UNCHANGED <<neighbors, rowOrder, pos, to_join, neighbours, ni, patches, jID, writes>>

LoopNext ==
    \/ SkipPatched
    \/ StartComponent
    \/ ExpandComponent
    \/ AssignComponent
    \/ FinishLoop

\* The loop as a function of the weights and the row order (lines 657-679)
RECURSIVE ExpandAll(_, _, _, _)
ExpandAll(w, tj, nb, i) ==
    IF i > Len(nb) THEN tj
    ELSE LET r == VisitNeighbour(w, tj, nb, nb[i])
         IN ExpandAll(w, r[1], r[2], i + 1)

RECURSIVE AssignAll(_, _, _, _, _)
AssignAll(w, ord, i, p, id) ==
    IF i > Len(ord) THEN p
    ELSE IF AlreadyPatched(p, ord[i]) THEN AssignAll(w, ord, i + 1, p, id)
    ELSE AssignAll(w, ord, i + 1,
                   FillPatches(p, ExpandAll(w, <<ord[i]>>, w[ord[i]], 1), id), id + 1)

\* the partition a patches dict induces on the fragments
SamePartition(p, q) == \A a, b \in Frag : (p[a] = p[b]) <=> (q[a] = q[b])

\* ------------------------------------------------------------------------
\* snap_street_network_edge(): geometry
\*
\* Coordinates are integer multiples of 0.001, the length below which the
\* code takes a final segment for degenerate.  Streets are rectilinear
\* polylines, footprints are rectangles, the boundary of the tessellation
\* is a set of rectilinear segments.  Distances are compared squared.
\* ------------------------------------------------------------------------

\* 0.001 (lines 433, 490) in coordinate units
DegenerateLen == 1

Min(a, b) == IF a <= b THEN a ELSE b
Max(a, b) == IF a >= b THEN a ELSE b
Sign(a) == IF a > 0 THEN 1 ELSE IF a < 0 THEN -1 ELSE 0

\* Point.distance, squared
Dist2(p, q) == (p[1] - q[1]) * (p[1] - q[1]) + (p[2] - q[2]) * (p[2] - q[2])

\* .bounds of a segment: <<minx, miny, maxx, maxy>>
SegBounds(a, b) == <<Min(a[1], b[1]), Min(a[2], b[2]), Max(a[1], b[1]), Max(a[2], b[2])>>

\* .bounds of a coordinate list
RECURSIVE BoundsFrom(_, _, _)
BoundsFrom(c, i, acc) ==
    IF i > Len(c) THEN acc
    ELSE BoundsFrom(c, i + 1,
                    <<Min(acc[1], c[i][1]), Min(acc[2], c[i][2]),
                      Max(acc[3], c[i][1]), Max(acc[4], c[i][2])>>)
Bounds(c) == BoundsFrom(c, 2, <<c[1][1], c[1][2], c[1][1], c[1][2]>>)

\* rtree: two boxes intersect (touching counts)
BoxesMeet(A, B) == A[1] <= B[3] /\ B[1] <= A[3] /\ A[2] <= B[4] /\ B[2] <= A[4]

\* the common part of two boxes known to meet
BoxCommon(A, B) == <<Max(A[1], B[1]), Max(A[2], B[2]), Min(A[3], B[3]), Min(A[4], B[4])>>

IsPointBox(A) == A[1] = A[3] /\ A[2] = A[4]

PointInBox(p, A) == A[1] <= p[1] /\ p[1] <= A[3] /\ A[2] <= p[2] /\ p[2] <= A[4]

\* the segments of a LineString, each as its bounds (a rectilinear segment
\* is the point set of its bounds)
Segs(c) == {SegBounds(c[i], c[i + 1]) : i \in 1..(Len(c) - 1)}

\* a.intersection(b) of two rectilinear line geometries, as the pair of
\* its isolated points and its line parts
Common(segsA, segsB) ==
    LET parts == {BoxCommon(a, b) : <<a, b>> \in {ab \in segsA \X segsB : BoxesMeet(ab[1], ab[2])}}
        lines == {q \in parts : ~IsPointBox(q)}
        pts == {<<q[1], q[2]>> : q \in {r \in parts : IsPointBox(r)}}
    IN [points |-> {p \in pts : \A l \in lines : ~PointInBox(p, l)}, lines |-> lines]

\* geometry.type of an intersection result
GeomType(r) ==
    IF r.lines = {}
    THEN IF r.points = {} THEN "GeometryCollection"
         ELSE IF Cardinality(r.points) = 1 THEN "Point" ELSE "MultiPoint"
    ELSE IF r.points # {} THEN "GeometryCollection"
         ELSE IF Cardinality(r.lines) = 1 THEN "LineString" ELSE "MultiLineString"

\* bool(geom): not geom.is_empty
NonEmpty(r) == r.points # {} \/ r.lines # {}

\* line.intersects(point)
LineHasPoint(c, p) == \E s \in Segs(c) : PointInBox(p, s)

\* line.intersection(polygon) is not empty, for a rectangle
LineMeetsBox(c, B) == \E s \in Segs(c) : BoxesMeet(s, B)

\* getExtrapoledLine (lines 406-426): the line from p2 of length tolerance in
\* the direction p1 -> p2 (the 0.000001 the code adds to the differences
\* is below the resolution of the coordinates)
getExtrapoledLine(p1, p2, tolerance) ==
    <<p2, <<p2[1] + tolerance * Sign(p2[1] - p1[1]), p2[2] + tolerance * Sign(p2[2] - p1[2])>>>>

\* lines 433-439 and 490-496: the two points the ray is drawn from, or
\* <<>> when the function returns False at once
ExtraPointsLastTwo(lc) == <<lc[Len(lc) - 1], lc[Len(lc)]>>
ExtraPoints(lc) ==
    LET n == Len(lc)
    IN IF Dist2(lc[n - 1], lc[n]) <= DegenerateLen * DegenerateLen
       THEN IF n > 2 THEN <<lc[n - 2], lc[n - 1]>> ELSE <<>>
       ELSE <<lc[n - 1], lc[n]>>

\* index of the first element of pts nearest to p: min(distances.items(),
\* key=operator.itemgetter(1))[0] (lines 459-465, 515-521)
FirstNearest(pts, p) ==
    CHOOSE i \in 1..Len(pts) :
        /\ \A j \in 1..Len(pts) : Dist2(pts[i], p) <= Dist2(pts[j], p)
        /\ \A j \in 1..(i - 1) : Dist2(pts[j], p) > Dist2(pts[i], p)

\* the points of one intersection result the code puts in true_int (lines
\* 451-455, 507-511): a Point, or elements [0] and [1] of a MultiPoint, in
\* whichever order the geometry kernel lists the points
PickedPoints(r) ==
    IF GeomType(r) = "Point" THEN {<<p>> : p \in r.points}
    ELSE IF GeomType(r) = "MultiPoint"
         THEN {<<p, q>> : <<p, q>> \in {pq \in r.points \X r.points : pq[1] # pq[2]}}
         ELSE {<<>>}

\* the lists true_int can be after the loop of lines 450-455 over the rows
\* of ord
RECURSIVE TrueIntLists(_, _, _)
TrueIntLists(results, ord, k) ==
    IF k > Len(ord) THEN {<<>>}
    ELSE {a \o b : <<a, b>> \in PickedPoints(results[ord[k]]) \X TrueIntLists(results, ord, k + 1)}

\* ------------------------------------------------------------------------
\* snap_street_network_edge(): the pass
\* ------------------------------------------------------------------------

\* streets the input network is drawn from
EdgePool ==
    { << <<4, 2>>, <<6, 2>> >>,                     \* the street in the middle
      << <<9, 1>>, <<9, 3>> >>,                     \* across its ray to the right
      << <<2, 1>>, <<2, 3>> >>,                     \* across its ray to the left
      << <<7, 1>>, <<7, 3>>, <<8, 3>>, <<8, 1>>, <<9, 1>>, <<9, 3>> >>,   \* crosses the ray 3 times
      << <<1, 1>>, <<1, 3>>, <<2, 3>>, <<2, 1>>, <<3, 1>>, <<3, 3>> >>,   \* the same, to the left
      << <<7, 2>>, <<9, 2>> >>,                     \* on the line of the ray
      << <<6, 2>>, <<6, 4>> >>,                     \* joins the middle street at its end
      << <<4, 0>>, <<4, 2>> >>,                     \* joins the middle street at its start
      << <<3, 2>>, <<5, 2>>, <<6, 2>> >>,           \* final segment of length 0.001
      << <<3, 2>>, <<6, 2>>, <<5, 2>> >>,           \* final segment of length 0.001, turning back
      << <<3, 3>>, <<4, 3>> >>,                     \* two vertices 0.001 apart
      << <<5, 1>>, <<5, 3>>, <<7, 3>>, <<7, 1>> >>, \* crosses the ray twice
      << <<4, 2>>, <<6, 2>>, <<6, 2>> >>,           \* repeated final vertex
      << <<8, 3>>, <<6, 3>> >> }                    \* points left, above the middle street

\* building footprints, as <<minx, miny, maxx, maxy>>
BuildingPool == { <<7, 1, 8, 3>>, <<0, 1, 1, 3>> }

\* the boundary of the dissolved tessellation: the ring (0,0) (10,0) (10,4) (0,4)
TessBoundary ==
    Segs(<< <<0, 0>>, <<10, 0>>, <<10, 4>>, <<0, 4>>, <<0, 0>> >>)

Rows == 1..NEdges

Networks == {n \in [Rows -> EdgePool] : \A i, j \in Rows : i # j => n[i] # n[j]}

\* lines 559-567: some other row among the index matches intersects the point
Connected(net, idx, p) ==
    \E i \in {j \in Rows : BoxesMeet(sindex[j], <<p[1], p[2], p[1], p[2]>>)} \ {idx} :
        LineHasPoint(net[i], p)

\* lines 474-478 and 530-534: the extended line meets a footprint
\* (possible_intersections.any()); the mutant tests the appended segment only
BuildingVetoLastSegment(line) ==
    LET seg == <<line[Len(line) - 1], line[Len(line)]>>
    IN \E b \in {c \in buildings : BoxesMeet(c, Bounds(seg))} : LineMeetsBox(seg, b)
BuildingVeto(line) ==
    \E b \in {c \in buildings : BoxesMeet(c, Bounds(line))} : LineMeetsBox(line, b)

\* `extend_line(...) is False` (lines 574, 579, 583, 586); the mutant is
\* `not extend_line(...)`
ReturnedFalsy(ret) == ret \in {"False", "None"}
ReturnedFalse(ret) == ret = "False"

\* what a search that appends nothing leaves behind
NoAppend(ret, lc, ti, all) ==
    [ret |-> ret, lc |-> lc, commit |-> FALSE, ti |-> ti, found |-> FALSE,
     chosen |-> <<0, 0>>, all |-> all, crosses |-> FALSE]

\* lines 457-481 and 513-537: the nearest point of true_int is appended to
\* l_coords, and the extended line replaces the geometry unless it meets a
\* footprint
AppendNearest(lc, ti, all) ==
    LET new_point_coords == ti[FirstNearest(ti, lc[Len(lc)])]
        new_extended_line == Append(lc, new_point_coords)
    IN [ret |-> "None", lc |-> new_extended_line, commit |-> ~BuildingVeto(new_extended_line),
        ti |-> ti, found |-> TRUE, chosen |-> new_point_coords, all |-> all,
        crosses |-> \E b \in buildings : LineMeetsBox(new_extended_line, b)]

\* extend_line (lines 429-483): every way the call can end
ExtendLineOutcomes(net, idx, lc, tolerance) ==
    LET extra == ExtraPoints(lc)
    IN IF extra = <<>> THEN {NoAppend("False", lc, <<>>, {})}
       ELSE
       LET extrapolation == getExtrapoledLine(extra[1], extra[2], tolerance)
           possible_intersections_index ==
               {i \in Rows : BoxesMeet(sindex[i], Bounds(extrapolation))}
           others == possible_intersections_index \ {idx}
           possible_intersections ==
               [i \in others |-> Common(Segs(net[i]), Segs(extrapolation))]
           all == UNION {possible_intersections[i].points : i \in others}
       IN IF ~\E i \in others : NonEmpty(possible_intersections[i])
          THEN {NoAppend("False", lc, <<>>, all)}
          ELSE {IF Len(ti) >= 1 THEN AppendNearest(lc, ti, all)
                ELSE NoAppend("None", lc, ti, all) :
                   ti \in UNION {TrueIntLists(possible_intersections, ord, 1) :
                                    ord \in Orderings(others)}}

\* extend_line_edge (lines 486-537): every way the call can end
ExtendLineEdgeOutcomes(lc, tolerance) ==
    LET extra == ExtraPoints(lc)
    IN IF extra = <<>> THEN {NoAppend("False", lc, <<>>, {})}
       ELSE
       LET extrapolation == getExtrapoledLine(extra[1], extra[2], tolerance)
           possible_intersections == Common(geometry, Segs(extrapolation))
       IN IF GeomType(possible_intersections) # "GeometryCollection"
          THEN {IF Len(ti) >= 1 THEN AppendNearest(lc, ti, possible_intersections.points)
                ELSE NoAppend("None", lc, ti, possible_intersections.points) :
                   ti \in PickedPoints(possible_intersections)}
          ELSE {NoAppend("None", lc, <<>>, possible_intersections.points)}

SnapIdle ==
    /\ edges = <<>>
    /\ network = <<>>
    /\ sindex = <<>>
    /\ buildings = {}
    /\ geometry = {}
    /\ tolerance_street = 0
    /\ tolerance_edge = 0
    /\ spc = "idle"
    /\ cur = 0
    /\ l_coords = <<>>
    /\ first = FALSE
    /\ second = FALSE
    /\ ends_left = 0
    /\ true_int = <<>>
    /\ lastExt = [kind |-> "none"]
    /\ crossing = {}

\* lines 539-546: the copy of the network, the indexes, the boundary
SnapInit ==
    /\ edges \in Networks
    /\ network = edges
    /\ sindex = [i \in Rows |-> Bounds(edges[i])]
    /\ buildings \in SUBSET BuildingPool
    /\ geometry = TessBoundary
    /\ tolerance_street \in 2..MaxTol
    /\ tolerance_edge \in {MaxTol + 1}
    /\ spc = "classify"
    /\ cur = 1
    /\ l_coords = <<>>
    /\ first = FALSE
    /\ second = FALSE
    /\ ends_left = 0
    /\ true_int = <<>>
    /\ lastExt = [kind |-> "none"]
    /\ crossing = {}

\* lines 553 and 578: l_coords ends at the end to extend, reversed when
\* only the end of the line is connected; the mutant never reverses
CoordsUnreversed(line, f, s) == line
CoordsToExtend(line, f, s) == IF ~f /\ s THEN Reverse(line) ELSE line

\* lines 550-587: the connectivity of both ends decides what is extended
ClassifyEdge ==
    /\ UNCHANGED notSnapVars
    /\ spc = "classify"
    /\ cur <= Len(network)
    /\ LET line == edges[cur]    \* iterrows() yields the rows as they were
           f == Connected(network, cur, line[1])
           s == Connected(network, cur, line[Len(line)])
       IN /\ first' = f
          /\ second' = s
          /\ l_coords' = CoordsToExtend(line, f, s)
          /\ ends_left' = IF f /\ s THEN 0 ELSE IF f \/ s THEN 1 ELSE 2
          /\ spc' = IF f /\ s THEN "classify" ELSE "extend"
          /\ cur' = IF f /\ s THEN cur + 1 ELSE cur
    /\ UNCHANGED <<edges, network, sindex, buildings, geometry, tolerance_street,
                   tolerance_edge, true_int, lastExt, crossing>>

\* the effect of one search on the shared state
ApplyOutcome(o, kind) ==
    /\ l_coords' = o.lc
    /\ network' = IF o.commit THEN [network EXCEPT ![cur] = o.lc] ELSE network
    /\ true_int' = o.ti
    /\ lastExt' = [kind |-> kind, row |-> cur, end |-> l_coords[Len(l_coords)],
                   found |-> o.found, chosen |-> o.chosen, all |-> o.all,
                   committed |-> o.commit]
    /\ crossing' = IF o.crosses THEN crossing \cup {<<cur, o.lc>>} ELSE crossing

\* what follows the handling of one end (lines 575-587)
EndHandled ==
    IF ends_left = 2
    THEN /\ spc' = "reverse"
         /\ ends_left' = 1
         /\ cur' = cur
    ELSE /\ spc' = "classify"
         /\ ends_left' = 0
         /\ cur' = cur + 1

\* lines 574, 579, 583, 586: extend_line(tolerance_street, idx)
ExtendLine ==
    /\ UNCHANGED notSnapVars
    /\ spc = "extend"
    /\ \E o \in ExtendLineOutcomes(network, cur, l_coords, tolerance_street) :
         /\ ApplyOutcome(o, "street")
         /\ IF ReturnedFalse(o.ret)
            THEN /\ spc' = "edge"
                 /\ UNCHANGED <<ends_left, cur>>
            ELSE EndHandled
    /\ UNCHANGED <<edges, sindex, buildings, geometry, tolerance_street, tolerance_edge,
                   first, second>>

\* lines 575, 580, 584, 587: extend_line_edge(tolerance_edge, idx)
ExtendLineEdge ==
    /\ UNCHANGED notSnapVars
    /\ spc = "edge"
    /\ \E o \in ExtendLineEdgeOutcomes(l_coords, tolerance_edge) :
         ApplyOutcome(o, "edge")
    /\ EndHandled
    /\ UNCHANGED <<edges, sindex, buildings, geometry, tolerance_street, tolerance_edge,
                   first, second>>

\* line 585: l_coords.reverse() between the two ends of an unconnected row
ReverseCoords ==
    /\ UNCHANGED notSnapVars
    /\ spc = "reverse"
    /\ l_coords' = Reverse(l_coords)
    /\ spc' = "extend"
    /\ UNCHANGED <<edges, network, sindex, buildings, geometry, tolerance_street,
                   tolerance_edge, cur, first, second, ends_left, true_int, lastExt, crossing>>

\* line 591: return network
FinishSnap ==
    /\ UNCHANGED notSnapVars
    /\ spc = "classify"
    /\ cur > Len(network)
    /\ spc' = "done"
    /\ UNCHANGED <<edges, network, sindex, buildings, geometry, tolerance_street,
                   tolerance_edge, cur, l_coords, first, second, ends_left, true_int,
                   lastExt, crossing>>

SnapNext ==
    \/ ClassifyEdge
    \/ ExtendLine
    \/ ExtendLineEdge
    \/ ReverseCoords
    \/ FinishSnap

\* ------------------------------------------------------------------------
\* tessellation(): planar geometry
\*
\* The plane is a sheet of 3 x 2 unit squares.  A geometry is a closed set
\* of atoms <<x, y>> of the doubled lattice: both coordinates odd is the
\* open square, one odd an open unit edge, none a grid vertex.  A Voronoi
\* region is one square; polygons are unions of squares, and intersections
\* may leave edges and vertices without a square (lines and points).
\* ------------------------------------------------------------------------

Faces == {<<1, 1>>, <<3, 1>>, <<5, 1>>, <<1, 3>>, <<3, 3>>, <<5, 3>>}

IsFace(a) == a[1] % 2 = 1 /\ a[2] % 2 = 1
IsVertex(a) == a[1] % 2 = 0 /\ a[2] % 2 = 0
IsEdge(a) == ~IsFace(a) /\ ~IsVertex(a)

\* the closure of one atom: a square with its edges and corners, an edge
\* with its end points, a vertex
ClosureOf(a) ==
    {<<x, y>> : x \in (a[1] - (a[1] % 2))..(a[1] + (a[1] % 2)),
                y \in (a[2] - (a[2] % 2))..(a[2] + (a[2] % 2))}

Closure(S) == UNION {ClosureOf(a) : a \in S}

\* the squares around an atom, on the sheet or not
FacesAround(a) ==
    {<<x, y>> : x \in {a[1] - (1 - (a[1] % 2)), a[1] + (1 - (a[1] % 2))},
                y \in {a[2] - (1 - (a[2] % 2)), a[2] + (1 - (a[2] % 2))}}

\* polygon.boundary: the atoms of a polygon with a square around them that
\* is not of the polygon
Boundary(S) == {a \in S : \E f \in FacesAround(a) : f \notin S}

\* a.intersection(b), a.intersects(b)
Intersection(S, T) == S \cap T
Intersects(S, T) == S \cap T # {}

\* squares sharing an edge
EdgeAdjacent(f, g) ==
    \/ (f[1] = g[1] /\ (f[2] - g[2] = 2 \/ g[2] - f[2] = 2))
    \/ (f[2] = g[2] /\ (f[1] - g[1] = 2 \/ g[1] - f[1] = 2))

\* the squares of F reachable from those of C through shared edges
RECURSIVE Grow(_, _)
Grow(C, F) ==
    LET more == {g \in F \ C : \E f \in C : EdgeAdjacent(f, g)}
    IN IF more = {} THEN C ELSE Grow(C \cup more, F)

\* the single polygons of a geometry, each as its set of squares
PolygonParts(S) ==
    LET F == {a \in S : IsFace(a)}
    IN {Grow({f}, F) : f \in F}

\* the atoms of a geometry that belong to no polygon of it: line and point
\* parts
LowerParts(S) == S \ Closure({a \in S : IsFace(a)})

LineParts(S) == {a \in LowerParts(S) : IsEdge(a)}

PointParts(S) == {a \in LowerParts(S) : IsVertex(a) /\ a \notin Closure(LineParts(S))}

\* geometry.type
TypeOf(S) ==
    LET np == Cardinality(PolygonParts(S))
        lower == LowerParts(S) # {}
    IN IF np = 0
       THEN IF S = {} THEN "GeometryCollection"
            ELSE IF LineParts(S) = {}
                 THEN IF Cardinality(PointParts(S)) = 1 THEN "Point" ELSE "MultiPoint"
                 ELSE IF PointParts(S) # {} THEN "GeometryCollection"
                      ELSE "LineString"
       ELSE IF lower THEN "GeometryCollection"
            ELSE IF np = 1 THEN "Polygon" ELSE "MultiPolygon"

\* polygon.area
Area(F) == Cardinality({a \in F : IsFace(a)})

\* a within the closed region b
Within(S, T) == S \subseteq T

\* ------------------------------------------------------------------------
\* _cut(): clip resolution (lines 158-201)
\* ------------------------------------------------------------------------

\* lines 166-181: the rows that intersect a chord of the densified boundary
\* of the limit, without duplicates
ToCut(tess, lim) ==
    {i \in DOMAIN tess : Intersects(tess[i].geometry, Boundary(lim))}

\* lines 186-192: the part of a MultiPolygon with the largest area; among
\* parts of equal area the first in the order of the geometry kernel.  The
\* mutant drops that part and keeps the rest.
LargestPartDropped(inter) ==
    LET parts == PolygonParts(inter)
    IN {Closure(UNION (parts \ {p})) :
           p \in {q \in parts : \A r \in parts : Area(r) <= Area(q)}}
LargestPart(inter) ==
    LET parts == PolygonParts(inter)
    IN {Closure(p) : p \in {q \in parts : \A r \in parts : Area(r) <= Area(q)}}

\* lines 193-198: every Polygon of a GeometryCollection is assigned in
\* turn, the last one stays; without any the geometry is left as it is
LastPolygon(geom, inter) ==
    IF PolygonParts(inter) = {} THEN {geom}
    ELSE {Closure(p) : p \in PolygonParts(inter)}

\* lines 185-200: the geometries the row can have after the clip
ClipResults(geom, lim) ==
    LET intersection == Intersection(geom, lim)
    IN IF TypeOf(intersection) = "MultiPolygon" THEN LargestPart(intersection)
       ELSE IF TypeOf(intersection) = "GeometryCollection"
            THEN LastPolygon(geom, intersection)
            ELSE {intersection}

\* ------------------------------------------------------------------------
\* tessellation(): seeds, regions, dissolve (lines 74-131, 306-377)
\* ------------------------------------------------------------------------

\* boundary.type of a row: of a polygon, of a polygon with holes, of a
\* line, of a point; "None" for no boundary
BoundaryKinds == {"LineString", "MultiLineString", "MultiPoint", "GeometryCollection", "None"}

\* lines 83-97: a boundary that is neither kind of line string raises
BoundaryRaisesNever(kind) == FALSE
BoundaryRaises(kind) == kind \notin {"LineString", "MultiLineString"}

\* A boundary point is named by its Voronoi region: a square of the sheet,
\* <<-1, i>> for a region that lists vertex -1 (unbounded), <<-3, i>> for a
\* bounded region with a boundary of 1000000 or longer.
Unbounded(p) == p[1] = -1
Oversized(p) == p[1] = -3

\* the boundary points row i can have: its regions lie in column i
RowCoords(i) ==
    { << <<-1, i>> >>,
      << <<2 * i - 1, 1>> >>,
      << <<2 * i - 1, 1>>, <<2 * i - 1, 3>>, <<-3, i>> >>,
      << <<2 * i - 1, 3>>, <<-1, i>> >> }

\* the exploded, densified footprints: parts of one building follow each
\* other and inherit its id
ObjectTables ==
    {t \in [1..NObjects -> [uid : 1..NObjects, boundary : BoundaryKinds,
                            coords : UNION {RowCoords(i) : i \in 1..NObjects}]] :
        /\ t[1].uid = 1
        /\ \A i \in 1..NObjects : t[i].coords \in RowCoords(i)
        /\ \A i \in 1..(NObjects - 1) : t[i + 1].uid \in {t[i].uid, t[i].uid + 1}}

\* lines 352-357: the points of the buffered hull; their regions are the
\* squares right of the footprints' columns and an unbounded one
HullCoords ==
    SortedAtoms({f \in Faces : f[1] > 2 * NObjects}) \o << <<-1, 0>> >>

\* lines 84-89 and 91-95: one point and one id per boundary vertex
RowIds(row) == [k \in 1..Len(row.coords) |-> row.uid]

\* _regions (lines 101-131): the rows of regions_gdf
RECURSIVE RegionRows(_, _, _)
RegionRows(pts, idl, k) ==
    IF k > Len(pts) THEN <<>>
    ELSE (IF ~Unbounded(pts[k]) /\ ~Oversized(pts[k]) /\ idl[k] # -1
          THEN << [uid |-> idl[k], geometry |-> Closure({pts[k]})] >>
          ELSE <<>>) \o RegionRows(pts, idl, k + 1)

\* line 366: dissolve(by=unique_id, as_index=False), one row per id in
\* ascending order; the mutant keeps every region as a row of its own
RECURSIVE DissolveIds(_, _)
DissolveIds(regs, idl) ==
    IF Len(idl) = 0 THEN <<>>
    ELSE << [uid |-> Head(idl),
             geometry |-> UNION {regs[k].geometry : k \in {j \in DOMAIN regs : regs[j].uid = Head(idl)}}] >>
         \o DissolveIds(regs, Tail(idl))
DissolveNoGrouping(regs) == regs
Dissolve(regs) == DissolveIds(regs, SortedSeq({regs[k].uid : k \in DOMAIN regs}))

\* limits of the tessellation run
TessLimits ==
    {Closure(F) : F \in { {<<1, 1>>, <<3, 1>>, <<1, 3>>, <<3, 3>>},
                          {<<1, 1>>, <<3, 1>>},
                          {<<1, 1>>, <<3, 3>>},
                          Faces }}

\* cell tables for _cut on its own: NCells rows of disjoint polygons
CellTables ==
    {[i \in 1..NCells |-> [uid |-> i, geometry |-> Closure({f \in Faces : own[f] = i})]] :
        own \in {o \in [Faces -> 0..NCells] : \A i \in 1..NCells : \E f \in Faces : o[f] = i}}

TessIdle ==
    /\ objects = <<>>
    /\ limit = {}
    /\ queen_corners = FALSE
    /\ tpc = "idle"
    /\ prow = 0
    /\ points = <<>>
    /\ ids = <<>>
    /\ seeds = <<>>
    /\ regions_gdf = <<>>
    /\ tessellation = <<>>
    /\ uncut = <<>>
    /\ subselection = <<>>
    /\ cpos = 0
    /\ cut_calls = 0
    /\ first_cut = <<>>

\* lines 332-348: tessellation() up to the call of _point_array
TessInit ==
    /\ objects \in ObjectTables
    /\ limit \in TessLimits
    /\ queen_corners \in BOOLEAN
    /\ tpc = "points"
    /\ prow = 1
    /\ points = <<>>
    /\ ids = <<>>
    /\ seeds = <<>>
    /\ regions_gdf = <<>>
    /\ tessellation = <<>>
    /\ uncut = <<>>
    /\ subselection = <<>>
    /\ cpos = 0
    /\ cut_calls = 0
    /\ first_cut = <<>>

\* _cut called on a table of cells
CutInit ==
    /\ objects = <<>>
    /\ limit \in {Closure(F) : F \in (SUBSET Faces) \ {{}}}
    /\ queen_corners = FALSE
    /\ tpc = "cut_prepare"
    /\ prow = 0
    /\ points = <<>>
    /\ ids = <<>>
    /\ seeds = <<>>
    /\ regions_gdf = <<>>
    /\ tessellation \in CellTables
    /\ uncut = tessellation
    /\ subselection = <<>>
    /\ cpos = 0
    /\ cut_calls = 0
    /\ first_cut = <<>>

\* lines 80-97: one row of _point_array; the exception leaves the function
\* and tessellation() without a return value
PointArrayRow ==
    /\ UNCHANGED notTessVars
    /\ tpc = "points"
    /\ prow <= Len(objects)
    /\ LET row == objects[prow]
       IN IF row.boundary = "None"
          THEN /\ prow' = prow + 1
               /\ UNCHANGED <<tpc, points, ids>>
          ELSE IF BoundaryRaises(row.boundary)
               THEN /\ tpc' = "raised_kind"
                    /\ UNCHANGED <<prow, points, ids>>
               ELSE /\ points' = points \o row.coords
                    /\ ids' = ids \o RowIds(row)
                    /\ prow' = prow + 1
                    /\ UNCHANGED tpc
    /\ UNCHANGED <<objects, limit, queen_corners, seeds, regions_gdf, tessellation, uncut,
                   subselection, cpos, cut_calls, first_cut>>

\* lines 98 and 348: points, ids = _point_array(objects, unique_id)
PointArrayReturn ==
    /\ UNCHANGED notTessVars
    /\ tpc = "points"
    /\ prow > Len(objects)
    /\ seeds' = <<points, ids>>
    /\ tpc' = "hull"
    /\ UNCHANGED <<objects, limit, queen_corners, prow, points, ids, regions_gdf,
                   tessellation, uncut, subselection, cpos, cut_calls, first_cut>>

\* lines 351-357: the hull points, with id -1
HullPoints ==
    /\ UNCHANGED notTessVars
    /\ tpc = "hull"
    /\ points' = points \o HullCoords
    /\ ids' = ids \o [k \in 1..Len(HullCoords) |-> -1]
    /\ tpc' = "voronoi"
    /\ UNCHANGED <<objects, limit, queen_corners, prow, seeds, regions_gdf, tessellation,
                   uncut, subselection, cpos, cut_calls, first_cut>>

\* lines 360-363: the Voronoi diagram and its bounded regions
VoronoiRegions ==
    /\ UNCHANGED notTessVars
    /\ tpc = "voronoi"
    /\ regions_gdf' = RegionRows(points, ids, 1)
    /\ tpc' = "dissolve"
    /\ UNCHANGED <<objects, limit, queen_corners, prow, points, ids, seeds, tessellation,
                   uncut, subselection, cpos, cut_calls, first_cut>>

\* lines 366-370: dissolve by id, then _cut is called
DissolveRegions ==
    /\ UNCHANGED notTessVars
    /\ tpc = "dissolve"
    /\ tessellation' = Dissolve(regions_gdf)
    /\ uncut' = tessellation'
    /\ tpc' = "cut_prepare"
    /\ UNCHANGED <<objects, limit, queen_corners, prow, points, ids, seeds, regions_gdf,
                   subselection, cpos, cut_calls, first_cut>>

\* lines 166-181: the rows to cut
CutPrepare ==
    /\ UNCHANGED notTessVars
    /\ tpc = "cut_prepare"
    /\ subselection' = SortedSeq(ToCut(tessellation, limit))
    /\ cpos' = 1
    /\ tpc' = "cut_rows"
    /\ UNCHANGED <<objects, limit, queen_corners, prow, points, ids, seeds, regions_gdf,
                   tessellation, uncut, cut_calls, first_cut>>

\* lines 184-200: one row is clipped
CutRow ==
    /\ UNCHANGED notTessVars
    /\ tpc = "cut_rows"
    /\ cpos <= Len(subselection)
    /\ \E g \in ClipResults(tessellation[subselection[cpos]].geometry, limit) :
         tessellation' = [tessellation EXCEPT ![subselection[cpos]].geometry = g]
    /\ cpos' = cpos + 1
    /\ UNCHANGED <<objects, limit, queen_corners, tpc, prow, points, ids, seeds, regions_gdf,
                   uncut, subselection, cut_calls, first_cut>>

\* line 201: return tessellation, sindex
CutReturn ==
    /\ UNCHANGED notTessVars
    /\ tpc = "cut_rows"
    /\ cpos > Len(subselection)
    /\ cut_calls' = cut_calls + 1
    /\ tpc' = "cut_return"
    /\ UNCHANGED <<objects, limit, queen_corners, prow, points, ids, seeds, regions_gdf,
                   tessellation, uncut, subselection, cpos, first_cut>>

\* lines 372-373: _queen_corners reads cell.exterior of every row (line 237,
\* an AttributeError unless the cell is a Polygon) and writes the rebuilt
\* geometry back to the row (line 302); moving corners by less than the
\* sensitivity does not change the squares of a cell
QueenCorners ==
    /\ UNCHANGED notTessVars
    /\ tpc = "cut_return"
    /\ queen_corners
    /\ IF \A i \in DOMAIN tessellation : TypeOf(tessellation[i].geometry) = "Polygon"
       THEN /\ tessellation' = [i \in DOMAIN tessellation |->
                                   [tessellation[i] EXCEPT !.geometry = tessellation[i].geometry]]
            /\ tpc' = "check"
       ELSE /\ tpc' = "raised_attr"
            /\ UNCHANGED tessellation
    /\ UNCHANGED <<objects, limit, queen_corners, prow, points, ids, seeds, regions_gdf,
                   uncut, subselection, cpos, cut_calls, first_cut>>

\* lines 375-377: _check_result only warns; the table is returned
ReturnTessellation ==
    /\ UNCHANGED notTessVars
    /\ \/ tpc = "check"
       \/ tpc = "cut_return" /\ ~queen_corners
    /\ tpc' = "returned"
    /\ UNCHANGED <<objects, limit, queen_corners, prow, points, ids, seeds, regions_gdf,
                   tessellation, uncut, subselection, cpos, cut_calls, first_cut>>

\* _cut applied to its own result, with the same limit
CutAgain ==
    /\ UNCHANGED notTessVars
    /\ tpc = "cut_return"
    /\ cut_calls = 1
    /\ first_cut' = tessellation
    /\ tpc' = "cut_prepare"
    /\ UNCHANGED <<objects, limit, queen_corners, prow, points, ids, seeds, regions_gdf,
                   tessellation, uncut, subselection, cpos, cut_calls>>

CutTwiceDone ==
    /\ UNCHANGED notTessVars
    /\ tpc = "cut_return"
    /\ cut_calls = 2
    /\ tpc' = "returned"
    /\ UNCHANGED <<objects, limit, queen_corners, prow, points, ids, seeds, regions_gdf,
                   tessellation, uncut, subselection, cpos, cut_calls, first_cut>>

TessNext ==
    \/ PointArrayRow
    \/ PointArrayReturn
    \/ HullPoints
    \/ VoronoiRegions
    \/ DissolveRegions
    \/ CutPrepare
    \/ CutRow
    \/ CutReturn
    \/ QueenCorners
    \/ ReturnTessellation

CutNext ==
    \/ CutPrepare
    \/ CutRow
    \/ CutReturn
    \/ CutAgain
    \/ CutTwiceDone

\* ------------------------------------------------------------------------
\* blocks(): the joins of the block id (lines 741-751)
\* ------------------------------------------------------------------------

\* Places of the plane: "a" lies in the first block only, "b" where the
\* outlines of both blocks meet or overlap, "c" in no block, "d" in the
\* second block when it reaches that far.
Places == {"a", "b", "c", "d"}

\* the value pandas fills in for a left row of sjoin without a match
NaN == 0

\* blocks_save (line 739): block id and outline polygon
BlockTables ==
    {<< [bid |-> 1, area |-> a1], [bid |-> 2, area |-> a2] >> :
        a1 \in {{"a"}, {"a", "b"}}, a2 \in {{"b"}, {"b", "d"}}}

\* buildings: id and the place of the representative point (line 699), the
\* ids numbered in the order of their first row
BuildingRows ==
    {t \in [1..NBuildings -> [uid : 1..NBuildings, at : Places]] :
        /\ t[1].uid = 1
        /\ \A i \in 2..NBuildings : \E j \in 1..(i - 1) : t[i].uid <= t[j].uid + 1}

\* tessellation: id and the place of the cell itself, which no line of the
\* joins reads; an id can be one of no building, and can repeat
CellRows == [1..NBuildings -> [uid : 1..(NBuildings + 1), at : {"a", "d"}]]

\* gpd.sjoin(left, right, how='left', op='intersects')[[unique_id, id_name]]:
\* one row per pair of a left row and a right row that holds its point, a
\* row with NaN for a left row without any
RECURSIVE SJoinLeft(_, _, _)
SJoinLeft(left, right, i) ==
    IF i > Len(left) THEN <<>>
    ELSE LET hits == {k \in DOMAIN right : left[i].at \in right[k].area}
         IN (IF hits = {} THEN << [uid |-> left[i].uid, bid |-> NaN] >>
             ELSE [j \in 1..Cardinality(hits) |->
                      [uid |-> left[i].uid, bid |-> right[SortedSeq(hits)[j]].bid]])
            \o SJoinLeft(left, right, i + 1)

\* DataFrame.merge(table, on=unique_id): the inner join on the id, in the
\* order of the left rows.  The mutant pairs the rows by position.
RECURSIVE MergeFrom(_, _, _)
MergeFrom(rows, table, i) ==
    IF i > Len(rows) THEN <<>>
    ELSE LET hits == SortedSeq({k \in DOMAIN table : table[k].uid = rows[i].uid})
         IN [j \in 1..Len(hits) |->
                [uid |-> rows[i].uid, at |-> rows[i].at, bid |-> table[hits[j]].bid]]
            \o MergeFrom(rows, table, i + 1)
MergeByPosition(rows, table) ==
    [i \in 1..Min(Len(rows), Len(table)) |->
        [uid |-> rows[i].uid, at |-> rows[i].at, bid |-> table[i].bid]]
Merge(rows, table) == MergeFrom(rows, table, 1)

JoinIdle ==
    /\ bl_buildings = <<>>
    /\ bl_tessellation = <<>>
    /\ blocks_save = <<>>
    /\ bl_ID_to_uID = <<>>
    /\ buildings_out = <<>>
    /\ cells = <<>>
    /\ bpc = "idle"

\* blocks() at line 739
JoinInit ==
    /\ bl_buildings \in BuildingRows
    /\ bl_tessellation \in CellRows
    /\ blocks_save \in BlockTables
    /\ bl_ID_to_uID = <<>>
    /\ buildings_out = <<>>
    /\ cells = <<>>
    /\ bpc = "sjoin"

\* lines 741-742
SpatialJoin ==
    /\ UNCHANGED notJoinVars
    /\ bpc = "sjoin"
    /\ bl_ID_to_uID' = SJoinLeft(bl_buildings, blocks_save, 1)
    /\ bpc' = "merge_buildings"
    /\ UNCHANGED <<bl_buildings, bl_tessellation, blocks_save, buildings_out, cells>>

\* line 745
MergeBuildings ==
    /\ UNCHANGED notJoinVars
    /\ bpc = "merge_buildings"
    /\ buildings_out' = Merge(bl_buildings, bl_ID_to_uID)
    /\ bpc' = "merge_cells"
    /\ UNCHANGED <<bl_buildings, bl_tessellation, blocks_save, bl_ID_to_uID, cells>>

\* line 748
MergeCells ==
    /\ UNCHANGED notJoinVars
    /\ bpc = "merge_cells"
    /\ cells' = Merge(bl_tessellation, bl_ID_to_uID)
    /\ bpc' = "return"
    /\ UNCHANGED <<bl_buildings, bl_tessellation, blocks_save, bl_ID_to_uID, buildings_out>>

\* line 751
ReturnBlocks ==
    /\ UNCHANGED notJoinVars
    /\ bpc = "return"
    /\ bpc' = "returned"
    /\ UNCHANGED <<bl_buildings, bl_tessellation, blocks_save, bl_ID_to_uID, buildings_out, cells>>

JoinNext ==
    \/ SpatialJoin
    \/ MergeBuildings
    \/ MergeCells
    \/ ReturnBlocks

\* ------------------------------------------------------------------------
\* blocks(): the containment scan (lines 724-739)
\* ------------------------------------------------------------------------

\* row.geometry.bounds of a polygon
AtomBounds(S) ==
    LET xs == {a[1] : a \in S}
        ys == {a[2] : a \in S}
    IN <<CHOOSE x \in xs : \A z \in xs : x <= z, CHOOSE y \in ys : \A z \in ys : y <= z,
         CHOOSE x \in xs : \A z \in xs : x >= z, CHOOSE y \in ys : \A z \in ys : y >= z>>

\* lines 712-722: every block is the polygon of an exterior ring, holes
\* filled; here the polygons made of squares of a 2 by 2 corner of the sheet
BlockPolygons ==
    {Closure(F) : F \in {G \in SUBSET {<<1, 1>>, <<3, 1>>, <<1, 3>>, <<3, 3>>} :
                            Cardinality(PolygonParts(Closure(G))) = 1}}

\* the tables the scan can meet.  The blocks come from a dissolve of the
\* cells by block id (line 710); a cell whose building point meets two
\* street blocks is merged under both ids (lines 701-706), so two blocks can
\* share cells, and can be the same polygon when they hold nothing else.
BlockFamilies == [1..NBlocks -> BlockPolygons]

\* lines 727-729: sindex.intersection(bounds), the row itself removed
PossibleMatches(blks, idx) ==
    {k \in DOMAIN blks : BoxesMeet(AtomBounds(blks[k]), AtomBounds(blks[idx]))} \ {idx}

\* lines 731-733: the row is within one of the possible matches; the mutant
\* asks whether a possible match is within the row
ContainsOther(blks, idx) ==
    \E idx2 \in PossibleMatches(blks, idx) : Within(blks[idx2], blks[idx])
WithinOther(blks, idx) ==
    \E idx2 \in PossibleMatches(blks, idx) : Within(blks[idx], blks[idx2])

\* lines 735-736: blocks.drop(rows with delete == 1), the labels kept
DropDeleted(blks, del) == [k \in {j \in DOMAIN blks : del[j] # 1} |-> blks[k]]

ScanIdle ==
    /\ blocks = <<>>
    /\ blocks_in = <<>>
    /\ delete = <<>>
    /\ bix = 0
    /\ kpc = "idle"

\* line 725
ScanInit ==
    /\ blocks \in BlockFamilies
    /\ blocks_in = blocks
    /\ delete = [k \in 1..NBlocks |-> 0]
    /\ bix = 1
    /\ kpc = "scan"

\* lines 726-733: one row of the scan
ScanRow ==
    /\ UNCHANGED notScanVars
    /\ kpc = "scan"
    /\ bix <= Len(blocks)
    /\ delete' = [delete EXCEPT ![bix] = IF WithinOther(blocks, bix) THEN 1 ELSE @]
    /\ bix' = bix + 1
    /\ UNCHANGED <<blocks, blocks_in, kpc>>

\* lines 735-739: the rows marked are dropped, blocks_save is what is left
DropMarked ==
    /\ UNCHANGED notScanVars
    /\ kpc = "scan"
    /\ bix > Len(blocks)
    /\ blocks' = IF \E k \in DOMAIN delete : delete[k] = 1
                 THEN DropDeleted(blocks, delete) ELSE blocks
    /\ kpc' = "saved"
    /\ UNCHANGED <<blocks_in, delete, bix>>

ScanNext ==
    \/ ScanRow
    \/ DropMarked

\* ------------------------------------------------------------------------
\* _queen_corners() (lines 225-303), on the coordinate lists of the rings
\* ------------------------------------------------------------------------

\* Exterior rings of cells, closed (the first vertex repeated at the end).
\* Three vertices lie close together on the line y = 0, at distances 2 and
\* 2; the cells above and below share them.
RingPool ==
    { << <<0, 0>>, <<2, 0>>, <<4, 0>>, <<4, 8>>, <<0, 8>>, <<0, 0>> >>,
      << <<0, 8>>, <<0, 0>>, <<2, 0>>, <<4, 0>>, <<4, 8>>, <<0, 8>> >>,
      << <<0, -8>>, <<0, 0>>, <<2, -2>>, <<4, 0>>, <<4, -8>>, <<0, -8>> >>,
      << <<0, -8>>, <<0, 0>>, <<1, -2>>, <<2, -3>>, <<3, -2>>, <<4, 0>>, <<4, -8>>, <<0, -8>> >>,
      << <<4, 0>>, <<4, -8>>, <<0, -8>>, <<0, 0>>, <<2, 0>>, <<4, 0>> >>,
      << <<0, -8>>, <<0, 0>>, <<1, -1>>, <<1, -2>>, <<1, -3>>, <<1, -4>>, <<1, -5>>, <<4, 0>>,
         <<4, -8>>, <<0, -8>> >> }

\* vertices that can be touched by more than two cells
JunctionPool == {<<0, 0>>, <<2, 0>>, <<4, 0>>}

\* the value stored as new[1] at line 262: the name `id`, which is the
\* builtin function, the same object in every entry
BuiltinId == "builtin id"

\* lines 238-244: the vertices of the ring with precise_matches > 2, in the
\* order of the ring, the closing vertex included
Corners(coords, junct) == SelectSeq(coords, LAMBDA p : p \in junct)

\* corners[c].distance(corners[next_c]) < sensitivity
Nearer(a, b, sens) == Dist2(a, b) < sens * sens

\* lines 246-256: the pairs put in change
RECURSIVE CyclicPairs(_, _, _)
CyclicPairs(corners, c, sens) ==
    IF c > Len(corners) THEN <<>>
    ELSE LET next_c == IF c = Len(corners) THEN 1 ELSE c + 1
         IN (IF Nearer(corners[c], corners[next_c], sens)
             THEN << <<corners[c], corners[next_c]>> >> ELSE <<>>)
            \o CyclicPairs(corners, c + 1, sens)

Change(corners, sens) ==
    IF Len(corners) > 2 THEN CyclicPairs(corners, 1, sens)
    ELSE IF Len(corners) = 2
              /\ Dist2(corners[1], corners[2]) > 0
              /\ Nearer(corners[1], corners[2], sens)
         THEN << <<corners[1], corners[2]>> >>
         ELSE <<>>

\* lines 260-261: np.mean of the coordinates
Midpoint(a, b) == <<(a[1] + b[1]) \div 2, (a[2] + b[2]) \div 2>>

\* changes[key] = new
SetChange(chg, key, new) ==
    [x \in DOMAIN chg \cup {key} |-> IF x = key THEN new ELSE chg[x]]

\* lines 259-265: the pairs of change written to changes, one after another
RECURSIVE RecordChanges(_, _, _)
RecordChanges(chg, change, k) ==
    IF k > Len(change) THEN chg
    ELSE LET new == [to |-> Midpoint(change[k][1], change[k][2]), tag |-> BuiltinId]
         IN RecordChanges(SetChange(SetChange(chg, change[k][1], new), change[k][2], new),
                          change, k + 1)

\* coords.index(x)
IndexOf(coords, x) == CHOOSE i \in 1..Len(coords) : coords[i] = x /\ \A j \in 1..(i - 1) : coords[j] # x

\* lines 271-275: keys of moves, the positions of the vertices to replace
MoveKeys(coords, chg) ==
    SortedSeq({IndexOf(coords, coords[i]) : i \in {j \in 1..Len(coords) : coords[j] \in DOMAIN chg}})

\* lines 276-280: the slices of coords between two consecutive keys
RECURSIVE DeletePoints(_, _, _, _)
DeletePoints(coords, chg, keys, move) ==
    IF move >= Len(keys) THEN <<>>
    ELSE (IF chg[coords[keys[move]]].tag = chg[coords[keys[move + 1]]].tag
               /\ keys[move + 1] - keys[move] < 5
          THEN SubSeq(coords, keys[move], keys[move + 1] - 1)
          ELSE <<>>)
         \o DeletePoints(coords, chg, keys, move + 1)

\* line 283
Substituted(coords, chg) ==
    [i \in 1..Len(coords) |-> IF coords[i] \in DOMAIN chg THEN chg[coords[i]].to ELSE coords[i]]

\* list.remove(x): the first occurrence goes
RemoveFirst(lst, x) ==
    LET i == IndexOf(lst, x)
    IN SubSeq(lst, 1, i - 1) \o SubSeq(lst, i + 1, Len(lst))

\* lines 284-286: the list is iterated by position while elements are
\* removed from it
RECURSIVE RemoveWhileIterating(_, _, _)
RemoveWhileIterating(lst, del, i) ==
    IF i > Len(lst) THEN lst
    ELSE IF InList(lst[i], del)
         THEN RemoveWhileIterating(RemoveFirst(lst, lst[i]), del, i + 1)
         ELSE RemoveWhileIterating(lst, del, i + 1)

QueenIdle ==
    /\ rings = <<>>
    /\ junctions = {}
    /\ sensitivity = 0
    /\ changes = <<>>
    /\ qid = 0
    /\ recorded = {}
    /\ rebuilt = <<>>
    /\ qix = 0
    /\ qpc = "idle"

\* lines 229-230
QueenInit ==
    /\ rings \in {r \in [1..NRings -> RingPool] : \A i, j \in 1..NRings : i # j => r[i] # r[j]}
    /\ junctions \in SUBSET JunctionPool
    /\ sensitivity \in {3, 5}
    /\ changes = <<>>
    /\ qid = 0
    /\ recorded = {}
    /\ rebuilt = <<>>
    /\ qix = 1
    /\ qpc = "record"

\* lines 232-265: the corners of one cell and the changes they give
RecordCell ==
    /\ UNCHANGED notQueenVars
    /\ qpc = "record"
    /\ qix <= Len(rings)
    /\ LET change == Change(Corners(rings[qix], junctions), sensitivity)
       IN /\ changes' = RecordChanges(changes, change, 1)
          /\ qid' = qid + Len(change)
          /\ recorded' = recorded \cup Elems(change)
    /\ qix' = qix + 1
    /\ UNCHANGED <<rings, junctions, sensitivity, rebuilt, qpc>>

\* line 267: the second loop starts
StartRebuild ==
    /\ UNCHANGED notQueenVars
    /\ qpc = "record"
    /\ qix > Len(rings)
    /\ qix' = 1
    /\ qpc' = "rebuild"
    /\ UNCHANGED <<rings, junctions, sensitivity, changes, qid, recorded, rebuilt>>

\* lines 268-302: one ring is rebuilt; the geometry is replaced when the
\* list of coordinates has changed
RebuildCell ==
    /\ UNCHANGED notQueenVars
    /\ qpc = "rebuild"
    /\ qix <= Len(rings)
    /\ LET coords == rings[qix]
           keys == MoveKeys(coords, changes)
           delete_points == DeletePoints(coords, changes, keys, 1)
           newcoords == RemoveWhileIterating(Substituted(coords, changes), delete_points, 1)
       IN rebuilt' = Append(rebuilt, [coords |-> coords, keys |-> keys,
                                      delete_points |-> delete_points,
                                      newcoords |-> newcoords,
                                      written |-> coords # newcoords])
    /\ qix' = qix + 1
    /\ UNCHANGED <<rings, junctions, sensitivity, changes, qid, recorded, qpc>>

\* line 303
ReturnQueen ==
    /\ UNCHANGED notQueenVars
    /\ qpc = "rebuild"
    /\ qix > Len(rings)
    /\ qpc' = "returned"
    /\ UNCHANGED <<rings, junctions, sensitivity, changes, qid, recorded, rebuilt, qix>>

QueenNext ==
    \/ RecordCell
    \/ StartRebuild
    \/ RebuildCell
    \/ ReturnQueen

\* ------------------------------------------------------------------------
\* Specifications
\* ------------------------------------------------------------------------

InitLoop == LoopInit /\ SnapIdle /\ TessIdle /\ JoinIdle /\ ScanIdle /\ QueenIdle
SpecLoop == InitLoop /\ [][LoopNext]_vars

\* the loop is sequential code: a step that can be taken is taken
SpecLoopFair == InitLoop /\ [][LoopNext]_vars /\ WF_vars(LoopNext)

InitSnap == SnapInit /\ LoopIdle /\ TessIdle /\ JoinIdle /\ ScanIdle /\ QueenIdle
SpecSnap == InitSnap /\ [][SnapNext]_vars

InitTess == TessInit /\ LoopIdle /\ SnapIdle /\ JoinIdle /\ ScanIdle /\ QueenIdle
SpecTess == InitTess /\ [][TessNext]_vars

InitCut == CutInit /\ LoopIdle /\ SnapIdle /\ JoinIdle /\ ScanIdle /\ QueenIdle
SpecCut == InitCut /\ [][CutNext]_vars

InitJoin == JoinInit /\ LoopIdle /\ SnapIdle /\ TessIdle /\ ScanIdle /\ QueenIdle
SpecJoin == InitJoin /\ [][JoinNext]_vars

InitScan == ScanInit /\ LoopIdle /\ SnapIdle /\ TessIdle /\ JoinIdle /\ QueenIdle
SpecScan == InitScan /\ [][ScanNext]_vars

InitQueen == QueenInit /\ LoopIdle /\ SnapIdle /\ TessIdle /\ JoinIdle /\ ScanIdle
SpecQueen == InitQueen /\ [][QueenNext]_vars

\* ------------------------------------------------------------------------
\* C1: once the component-assignment loop has finished, every fragment
\* index has a component id in patches, and that id was written exactly
\* once: no fragment is left unassigned and none is overwritten by a later
\* component (the adjacency relation is symmetric).
\* ------------------------------------------------------------------------
C1_EveryFragmentOneComponent ==
    lpc = "done" => \A f \in Frag : patches[f] # 0 /\ writes[f] = 1

\* the loop has finished with a component of several fragments and a later
\* component
C1_Witness ==
    /\ lpc = "done"
    /\ \E a, b, c \in Frag : a # b /\ patches[a] = patches[b] /\ patches[c] > patches[a]

\* ------------------------------------------------------------------------
\* C2: for a fixed adjacency graph, the loop run over the fragments in any
\* order yields the partition that the run in index order yields; only the
\* numbering of the components may differ.
\* ------------------------------------------------------------------------
C2_PartitionOrderInvariant ==
    lpc = "done" =>
        SamePartition(patches,
                      AssignAll(neighbors, SortedSeq(Frag), 1, [f \in Frag |-> 0], 1))

\* a finished run in another order than the index order whose numbering
\* differs from the run in index order
C2_Witness ==
    /\ lpc = "done"
    /\ rowOrder # SortedSeq(Frag)
    /\ patches # AssignAll(neighbors, SortedSeq(Frag), 1, [f \in Frag |-> 0], 1)
    /\ \E a, b \in Frag : a # b /\ patches[a] = patches[b]

\* ------------------------------------------------------------------------
\* C3: whenever the candidate extended line of an end meets a building
\* footprint, the extension is discarded: the geometry of the row never
\* contains that candidate line, in either direction, also when both ends
\* are free and the other end is searched afterwards.
\* ------------------------------------------------------------------------
C3_HasRun(out, l) ==
    \E k \in 0..(Len(out) - Len(l)) :
        SubSeq(out, k + 1, k + Len(l)) \in {l, Reverse(l)}

C3_CrossingExtensionDiscarded ==
    \A c \in crossing : ~C3_HasRun(network[c[1]], c[2])

\* the pass has ended; a row with two free ends had the candidate of its
\* first end meet a footprint and a candidate found for its second end
C3_Witness ==
    /\ spc = "done"
    /\ \E c, d \in crossing :
          /\ c[1] = d[1]
          /\ Len(d[2]) = Len(c[2]) + 1
          /\ Len(c[2]) = Len(edges[c[1]]) + 1

C9_Extends(out, in) ==
    \E a, b \in 0..1 :
        /\ Len(out) = Len(in) + a + b
        /\ SubSeq(out, a + 1, a + Len(in)) \in {in, Reverse(in)}

C9_SameRowsVerticesKept ==
    spc # "idle" =>
        /\ DOMAIN network = DOMAIN edges
        /\ \A i \in DOMAIN network : C9_Extends(network[i], edges[i])

\* the pass has ended with a row extended at both ends
C9_Witness ==
    /\ spc = "done"
    /\ \E i \in DOMAIN network : Len(network[i]) = Len(edges[i]) + 2

\* the ids of a table, row by row
UidList(table) == [k \in DOMAIN table |-> table[k].uid]

\* C5: from the dissolve on, through the clipping and the regularization of
\* corners up to the return of tessellation(), the table has exactly one
\* row for every id that has a surviving region, in ascending order of the
\* id: no id occurs twice, no row is added and none is duplicated.
C5_OneRowPerOwnerId ==
    tpc \in {"cut_prepare", "cut_rows", "cut_return", "check", "returned"}
        => UidList(tessellation) = SortedSeq({regions_gdf[k].uid : k \in DOMAIN regions_gdf})

\* C5 witness: the table is returned after the corners were regularized, a
\* building had regions from two parts, and the clipping changed a cell.
C5_Witness ==
    /\ tpc = "returned"
    /\ queen_corners
    /\ tessellation # uncut
    /\ \E i, j \in DOMAIN objects :
         /\ i # j
         /\ objects[i].uid = objects[j].uid
         /\ \E k \in DOMAIN regions_gdf : regions_gdf[k].geometry = Closure({objects[i].coords[1]})
         /\ \E k \in DOMAIN regions_gdf : regions_gdf[k].geometry = Closure({objects[j].coords[1]})

\* the ids of the seeds _point_array has returned
SeedIds == IF seeds = <<>> THEN {} ELSE Elems(seeds[2])

LineKinds == {"LineString", "MultiLineString"}

\* C7 as stated: when a boundary of another kind has raised the error, the
\* seeds of the footprints with a line string boundary are still produced.
C7_OtherSeedsStillProduced ==
    tpc = "raised_kind"
        => \A i \in DOMAIN objects :
               objects[i].boundary \in LineKinds => objects[i].uid \in SeedIds

\* C7 amended: the error ends the whole call.  When it is raised, the row
\* at hand has a boundary that is no line string, and no seeds, regions or
\* cells are produced for any footprint; whenever seeds are produced, every
\* boundary of the batch was a line string or absent.
C7_RaiseAbortsWholeCall ==
    /\ tpc = "raised_kind"
         => /\ objects[prow].boundary \notin LineKinds \cup {"None"}
            /\ seeds = <<>>
            /\ regions_gdf = <<>>
            /\ tessellation = <<>>
    /\ tpc \notin {"points", "raised_kind"}
         => /\ seeds # <<>>
            /\ \A i \in DOMAIN objects : objects[i].boundary \in LineKinds \cup {"None"}

\* C7 witness: the error is raised at the second row, after the points of
\* the first were collected.
C7_Witness ==
    /\ tpc = "raised_kind"
    /\ prow = 2
    /\ objects[1].boundary \in LineKinds
    /\ points # <<>>

\* C8: when _cut has run a second time, with the same limit, on the table
\* its first run returned, every cell has the geometry the first run gave it.
C8_SecondCutChangesNothing ==
    cut_calls = 2 => tessellation = first_cut

\* C8 witness: the second run has returned, and the first run had reduced
\* a cell whose intersection with the limit was a MultiPolygon to one part
\* and a cell whose intersection was a GeometryCollection to a polygon.
C8_Witness ==
    /\ cut_calls = 2
    /\ \E i \in DOMAIN uncut :
         /\ TypeOf(Intersection(uncut[i].geometry, limit)) = "MultiPolygon"
         /\ Cardinality(PolygonParts(Intersection(uncut[i].geometry, limit))) >= 3
         /\ first_cut[i].geometry # uncut[i].geometry
    /\ \E i \in DOMAIN uncut :
         /\ TypeOf(Intersection(uncut[i].geometry, limit)) = "GeometryCollection"
         /\ first_cut[i].geometry # uncut[i].geometry

\* C10: after _cut has returned, every cell whose geometry intersected the
\* boundary of the limit lies within the limit.
C10_CutCellsWithinLimit ==
    cut_calls >= 1
        => \A i \in DOMAIN uncut :
               Intersects(uncut[i].geometry, Boundary(limit))
                   => Within(tessellation[i].geometry, limit)

\* the block ids, or NaN, on the rows of a table with the given id
BlockIdsOf(table, u) == {table[k].bid : k \in {j \in DOMAIN table : table[j].uid = u}}

\* C6: in the tables blocks() returns, an id that occurs in the buildings
\* and in the cells carries the same block ids in both, and is without a
\* block id in both or in neither.
C6_CellHasBlockIdOfBuilding ==
    bpc = "returned"
        => \A u \in Elems(UidList(buildings_out)) \cap Elems(UidList(cells)) :
               BlockIdsOf(buildings_out, u) = BlockIdsOf(cells, u)

\* C6 witness: the tables are returned, and a cell that itself lies outside
\* the block of its building carries that block's id.
C6_Witness ==
    /\ bpc = "returned"
    /\ \E c \in DOMAIN cells : \E k \in DOMAIN blocks_save :
         /\ cells[c].bid = blocks_save[k].bid
         /\ cells[c].at \notin blocks_save[k].area
         /\ \E b \in DOMAIN buildings_out :
              /\ buildings_out[b].uid = cells[c].uid
              /\ buildings_out[b].at \in blocks_save[k].area

\* C11: once the containment scan has dropped the marked rows, no block
\* that is left lies within another block that is left, and the blocks
\* left are exactly those of the scanned table that lie within no other
\* block of it.
C11_NoBlockWithinAnother ==
    kpc = "saved"
        => /\ \A i, j \in DOMAIN blocks : i # j => ~Within(blocks[i], blocks[j])
           /\ DOMAIN blocks = {i \in DOMAIN blocks_in :
                                  \A j \in DOMAIN blocks_in : j # i => ~Within(blocks_in[i], blocks_in[j])}

\* C11 witness: the scan has finished on a table with a chain of three
\* blocks, each within the next, the innermost scanned last.
C11_Witness ==
    /\ kpc = "saved"
    /\ \E a, b, c \in DOMAIN blocks_in :
         /\ a > b /\ b > c
         /\ Within(blocks_in[a], blocks_in[b])
         /\ Within(blocks_in[b], blocks_in[c])
         /\ c \in DOMAIN blocks

\* the rows of a table with the given id
RowsOf(table, u) == {k \in DOMAIN table : table[k].uid = u}

\* C12: in the buildings blocks() returns, a building whose id is its own
\* has exactly one row and so exactly one block id, also when its
\* representative point lies in more than one block.
C12_OneRowPerBuilding ==
    bpc = "returned"
        => \A i \in DOMAIN bl_buildings :
               Cardinality(RowsOf(bl_buildings, bl_buildings[i].uid)) = 1
                   => Cardinality(RowsOf(buildings_out, bl_buildings[i].uid)) = 1

\* the fragments joined to a set of fragments by a path of adjacencies
RECURSIVE PathClosure(_)
PathClosure(S) ==
    LET T == S \cup {f \in Frag : \E s \in S : InList(f, neighbors[s])}
    IN IF T = S THEN S ELSE PathClosure(T)

\* the connected components of the adjacency graph
Components == {PathClosure({f}) : f \in Frag}

\* C13: once the component-assignment loop has finished, two fragments
\* have the same component id exactly if a path of adjacencies joins them,
\* and the ids in use are exactly 1..K for K connected components.
C13_ComponentsAreConnectedComponents ==
    lpc = "done"
        => /\ \A a, b \in Frag : (patches[a] = patches[b]) <=> (b \in PathClosure({a}))
           /\ {patches[f] : f \in Frag} = 1..Cardinality(Components)

\* C13 witness: the loop has finished on a graph with two components or
\* more, one of which holds two fragments that are joined by a path but are
\* not adjacent; one of the two is the first row of the loop, so the other
\* is reached only through the neighbours of neighbours.
C13_Witness ==
    /\ lpc = "done"
    /\ Cardinality(Components) >= 2
    /\ \E a, b \in Frag :
         /\ a # b
         /\ patches[a] = patches[b]
         /\ ~InList(b, neighbors[a])
         /\ rowOrder[1] = a

\* p is the first or the last vertex of a line
C14_IsEnd(line, p) == line[1] = p \/ line[Len(line)] = p

\* the row handled last, once its handling is over
C14_Handled == spc \in {"classify", "done"} /\ cur > 1

\* C14: an end is extended only if no other edge of the input intersects
\* it; a row with both ends connected keeps its input geometry, a row with
\* one end connected keeps that end as an end of its geometry, and no
\* step changes a row other than the one being handled.
C14_ConnectedEndsKept ==
    /\ [](/\ spc \in {"extend", "edge"}
               => \A j \in Rows \ {cur} : ~LineHasPoint(edges[j], l_coords[Len(l_coords)])
          /\ C14_Handled /\ first /\ second
               => network[cur - 1] = edges[cur - 1]
          /\ C14_Handled /\ first /\ ~second
               => C14_IsEnd(network[cur - 1], edges[cur - 1][1])
          /\ C14_Handled /\ ~first /\ second
               => C14_IsEnd(network[cur - 1], edges[cur - 1][Len(edges[cur - 1])])
          /\ \A r \in Rows : r >= cur /\ spc = "classify" => network[r] = edges[r])
    /\ [][\A r \in Rows : r # cur => network'[r] = network[r]]_vars

\* C14 witness: a row with only its end connected has been extended at its
\* start, after a row with both ends connected was passed over.
C14_Witness ==
    /\ C14_Handled
    /\ cur = 3
    /\ ~first /\ second
    /\ network[2] # edges[2]
    /\ Connected(edges, 1, edges[1][1])
    /\ Connected(edges, 1, edges[1][Len(edges[1])])

RayCrossings ==
    LET extra == ExtraPoints(l_coords)
    IN IF extra = <<>> THEN {}
       ELSE UNION {Common(Segs(network[i]),
                          Segs(getExtrapoledLine(extra[1], extra[2], tolerance_street))).points :
                      i \in Rows \ {cur}}

\* C16: when the ray of a free end meets the present geometry of another
\* row in a point, the extension of an earlier row included, the street
\* search finds an intersection point to snap to.
C16_EarlierExtensionVisible ==
    [][spc = "extend" /\ RayCrossings # {} => lastExt'.found]_vars

\* the final segment of l_coords is no longer than 0.001
C20_Degenerate ==
    Dist2(l_coords[Len(l_coords) - 1], l_coords[Len(l_coords)]) <= DegenerateLen * DegenerateLen

\* the ray drawn from the two vertices before the final one
C20_RayOfPreceding ==
    getExtrapoledLine(l_coords[Len(l_coords) - 2], l_coords[Len(l_coords) - 1],
                      IF spc = "extend" THEN tolerance_street ELSE tolerance_edge)

\* C20: a search for an end whose final segment is degenerate leaves
\* l_coords and the network as they are when the line has two vertices,
\* the street search then returning False; with more vertices a point it
\* snaps to lies on the ray drawn from the two vertices before the final one.
C20_DegenerateFinalSegment ==
    [][(spc \in {"extend", "edge"} /\ C20_Degenerate)
          => (IF Len(l_coords) = 2
              THEN (l_coords' = l_coords) /\ (network' = network)
                   /\ (spc = "extend" => spc' = "edge")
              ELSE (lastExt'.found
                       => PointInBox(lastExt'.chosen, Bounds(C20_RayOfPreceding))))]_vars

\* C20 witness: the pass is over; the first row has two vertices 0.001
\* apart and is as it was, the second row has a degenerate final segment
\* after two vertices or more and was extended at that end.
C20_Witness ==
    /\ spc = "done"
    /\ Len(edges[1]) = 2
    /\ Dist2(edges[1][1], edges[1][2]) <= DegenerateLen * DegenerateLen
    /\ network[1] = edges[1]
    /\ Len(edges[2]) > 2
    /\ Dist2(edges[2][Len(edges[2]) - 1], edges[2][Len(edges[2])]) <= DegenerateLen * DegenerateLen
    /\ Len(network[2]) > Len(edges[2])
    /\ network[2][Len(edges[2]) + 1] \notin Elems(edges[2])
    /\ \A k \in 1..Len(edges[2]) : network[2][k] = edges[2][k]

\* the rings rebuilt so far
RebuiltRings == {rebuilt[k] : k \in DOMAIN rebuilt}

\* C17: a vertex of a ring that is not itself replaced disappears from the
\* rebuilt ring only if it lies between two consecutive replaced vertices
\* that have the same target and are fewer than 5 positions apart.
C17_DeletedOnlyBetweenSameTarget ==
    \A rec \in RebuiltRings :
        \A i \in 1..Len(rec.coords) :
            (rec.coords[i] \notin DOMAIN changes /\ ~InList(rec.coords[i], rec.newcoords))
                => \E m \in 1..(Len(rec.keys) - 1) :
                       /\ rec.keys[m] < i /\ i < rec.keys[m + 1]
                       /\ changes[rec.coords[rec.keys[m]]].to = changes[rec.coords[rec.keys[m + 1]]].to
                       /\ rec.keys[m + 1] - rec.keys[m] < 5

\* C18: when _queen_corners returns, both points of every pair that was
\* recorded for merging are replaced by the midpoint of the pair, in every
\* ring that holds them.
C18_PairReplacedByMidpoint ==
    qpc = "returned"
        => \A pair \in recorded :
               /\ changes[pair[1]].to = Midpoint(pair[1], pair[2])
               /\ changes[pair[2]].to = Midpoint(pair[1], pair[2])
               /\ \A rec \in RebuiltRings : \A i \in 1..Len(rec.coords) :
                      rec.coords[i] \in {pair[1], pair[2]}
                          => Substituted(rec.coords, changes)[i] = Midpoint(pair[1], pair[2])

\* C19: no coordinate of delete_points is left in the new coordinate list
\* of a rebuilt ring.
C19_DeletePointsAllRemoved ==
    \A rec \in RebuiltRings :
        \A k \in 1..Len(rec.delete_points) : ~InList(rec.delete_points[k], rec.newcoords)

\* C21: after _cut has returned, the geometry of every cell is a Polygon
\* or a MultiPolygon, the cells that only touch the limit included.
C21_CutCellsPolygonal ==
    cut_calls >= 1
        => \A i \in DOMAIN tessellation :
               TypeOf(tessellation[i].geometry) \in {"Polygon", "MultiPolygon"}

\* the vertices of line a occur in line b, next to each other and in the
\* order they have in a
C22_InOrder(a, b) ==
    \E k \in 0..(Len(b) - Len(a)) : \A i \in 1..Len(a) : b[k + i] = a[i]

C23_RemovedWithinKept ==
    kpc = "saved"
        => \A i \in DOMAIN blocks_in \ DOMAIN blocks :
               \E j \in DOMAIN blocks : Within(blocks_in[i], blocks[j])

\* the number of entries the weights of the fragments of a list hold
RECURSIVE C24_Degrees(_, _)
C24_Degrees(tj, k) ==
    IF k > Len(tj) THEN 0 ELSE Len(neighbors[tj[k]]) + C24_Degrees(tj, k + 1)

\* no fragment occurs twice in a list
C24_NoRepeat(tj) == \A i, j \in 1..Len(tj) : i # j => tj[i] # tj[j]

\* C24: the component-assignment loop ends on every adjacency graph.  On
\* the way no fragment is put twice in to_join or written twice to patches,
\* and the work list holds the neighbours of the fragments of to_join and
\* nothing else, so it grows once per fragment of the component.
C24_LoopTerminates ==
    /\ <>(lpc = "done")
    /\ [](/\ C24_NoRepeat(to_join)
          /\ \A f \in Frag : writes[f] <= 1
          /\ lpc = "inner" => /\ Len(neighbours) = C24_Degrees(to_join, 1)
                              /\ ni <= Len(neighbours) + 1)

\* C24 witness: the loop has ended on a graph with a fragment without
\* neighbours, handled first, and three fragments adjacent to each other,
\* whose work list was extended while it was iterated.
C24_Witness ==
    /\ lpc = "done"
    /\ neighbors[rowOrder[1]] = <<>>
    /\ \E a, b, c \in Frag :
         /\ InList(b, neighbors[a]) /\ InList(c, neighbors[b]) /\ InList(a, neighbors[c])
         /\ to_join[1] = a
         /\ Len(neighbours) > Len(neighbors[a])
    /\ Len(to_join) = 3

====
